---------------------------- MODULE Spec2Model ----------------------------
(***************************************************************************)
(* Model of src/src/components/Dashboard.tsx: the Dashboard component's    *)
(* state (query, posts, loading, analyzing, sentimentData), the async      *)
(* handler handleAnalyze with its fetch / Promise.all join, the in-line    *)
(* aggregation, and extractTopKeywords.                                    *)
(*                                                                         *)
(* Conventions.  A JavaScript string is a sequence of one-character        *)
(* strings.  A score or confidence is an integer number of tenths          *)
(* (0.3 is 3), the overall score a fraction [num, den] of tenths; 0/0 is   *)
(* NaN.  Floating-point rounding is not modelled.                          *)
(***************************************************************************)
EXTENDS Integers, Sequences, FiniteSets, TLC

(***************************************************************************)
(* Strings                                                                 *)
(***************************************************************************)
WhiteSpace == {" ", "\t", "\n"}

UpperLetters == <<"A","B","C","D","E","F","G","H","I","J","K","L","M",
                  "N","O","P","Q","R","S","T","U","V","W","X","Y","Z">>
LowerLetters == <<"a","b","c","d","e","f","g","h","i","j","k","l","m",
                  "n","o","p","q","r","s","t","u","v","w","x","y","z">>
Digits == <<"0","1","2","3","4","5","6","7","8","9">>

ToLowerChar(c) ==
    IF \E i \in 1..Len(UpperLetters) : UpperLetters[i] = c
    THEN LowerLetters[CHOOSE i \in 1..Len(UpperLetters) : UpperLetters[i] = c]
    ELSE c

\* String.prototype.toLowerCase
ToLowerCase(s) == [i \in 1..Len(s) |-> ToLowerChar(s[i])]

RECURSIVE TrimStart(_)
TrimStart(s) ==
    IF s /= <<>> /\ Head(s) \in WhiteSpace THEN TrimStart(Tail(s)) ELSE s

RECURSIVE TrimEnd(_)
TrimEnd(s) ==
    IF s /= <<>> /\ s[Len(s)] \in WhiteSpace
    THEN TrimEnd(SubSeq(s, 1, Len(s) - 1)) ELSE s

\* String.prototype.trim
Trim(s) == TrimEnd(TrimStart(s))

\* String.prototype.split(/\s+/): the pieces between maximal runs of white
\* space; a leading or trailing run leaves an empty piece, "" gives [""].
RECURSIVE SplitFrom(_, _, _)
SplitFrom(s, cur, inRun) ==
    IF s = <<>> THEN <<cur>>
    ELSE IF Head(s) \in WhiteSpace
         THEN IF inRun THEN SplitFrom(Tail(s), cur, TRUE)
              ELSE <<cur>> \o SplitFrom(Tail(s), <<>>, TRUE)
         ELSE SplitFrom(Tail(s), Append(cur, Head(s)), FALSE)

SplitWhiteSpace(s) == SplitFrom(s, <<>>, FALSE)

RECURSIVE FlatMap(_, _)
FlatMap(F(_), xs) ==
    IF xs = <<>> THEN <<>> ELSE F(Head(xs)) \o FlatMap(F, Tail(xs))

RECURSIVE FilterSeq(_, _)
FilterSeq(P(_), xs) ==
    IF xs = <<>> THEN <<>>
    ELSE (IF P(Head(xs)) THEN <<Head(xs)>> ELSE <<>>) \o FilterSeq(P, Tail(xs))

(***************************************************************************)
(* extractTopKeywords                                                      *)
(***************************************************************************)
stopWords == { <<"t","h","e">>, <<"b","e">>, <<"t","o">>, <<"o","f">>,
               <<"a","n","d">>, <<"a">>, <<"i","n">>,
               <<"t","h","a","t">>, <<"h","a","v","e">> }

MinWordLength == 2

TopN == 10

KeepWord(word) == word \notin stopWords /\ Len(word) > MinWordLength

TextWords(text) == FilterSeq(KeepWord, SplitWhiteSpace(ToLowerCase(text)))

\* texts.flatMap(...)
Words(texts) == FlatMap(TextWords, texts)

\* The accumulator is the object literal {}: it inherits from
\* Object.prototype.  The inherited properties an all-lower-case token can
\* name are constructor (the function Object) and the accessor __proto__.
Constructor == <<"c","o","n","s","t","r","u","c","t","o","r">>
DunderProto == <<"_","_","p","r","o","t","o","_","_">>
InheritedKeys == {Constructor, DunderProto}

\* A JavaScript value held as a count: the number v, or the string that is a
\* non-numeric text followed by v copies of "1".
JsNumber(n) == [t |-> "number", v |-> n]
JsString(n) == [t |-> "string", v |-> n]

HasOwn(acc, word) == \E i \in 1..Len(acc) : acc[i].keyword = word
OwnIndex(acc, word) == CHOOSE i \in 1..Len(acc) : acc[i].keyword = word

\* (acc[word] || 0) + 1
NextCount(acc, word) ==
    IF HasOwn(acc, word)
    THEN LET c == acc[OwnIndex(acc, word)].count
         IN  [t |-> c.t, v |-> c.v + 1]            \* n + 1, or s + "1"
    ELSE IF word \in InheritedKeys
         THEN JsString(1)                          \* object + 1 is a string
         ELSE JsNumber(1)                          \* (undefined || 0) + 1

\* acc[word] = value; the __proto__ setter ignores a primitive value.
SetCount(acc, word, value) ==
    IF word = DunderProto THEN acc
    ELSE IF HasOwn(acc, word)
         THEN [acc EXCEPT ![OwnIndex(acc, word)].count = value]
         ELSE Append(acc, [keyword |-> word, count |-> value])

RECURSIVE CountInto(_, _)
CountInto(acc, words) ==
    IF words = <<>> THEN acc
    ELSE CountInto(SetCount(acc, Head(words), NextCount(acc, Head(words))),
                   Tail(words))

\* words.reduce(..., {}): the own properties in creation order
WordCounts(words) == CountInto(<<>>, words)

DigitValue(c) == (CHOOSE i \in 1..Len(Digits) : Digits[i] = c) - 1
IsDigit(c) == \E i \in 1..Len(Digits) : Digits[i] = c

RECURSIVE NumericValue(_)
NumericValue(word) ==
    IF word = <<>> THEN 0
    ELSE 10 * NumericValue(SubSeq(word, 1, Len(word) - 1))
         + DigitValue(word[Len(word)])

\* An integer-index property key: a canonical numeric string below 2^32 - 1.
\* Every canonical string of up to 9 digits is one; the 10-digit ones are
\* longer than any token of the modelled texts.
IsArrayIndex(word) ==
    /\ word /= <<>>
    /\ Len(word) <= 9
    /\ \A i \in 1..Len(word) : IsDigit(word[i])
    /\ (Len(word) > 1 => word[1] /= "0")

RECURSIVE InsertByIndex(_, _)
InsertByIndex(sorted, e) ==
    IF sorted = <<>> THEN <<e>>
    ELSE IF NumericValue(Head(sorted).keyword) < NumericValue(e.keyword)
         THEN <<Head(sorted)>> \o InsertByIndex(Tail(sorted), e)
         ELSE <<e>> \o sorted

RECURSIVE SortByIndex(_)
SortByIndex(es) ==
    IF es = <<>> THEN <<>>
    ELSE InsertByIndex(SortByIndex(SubSeq(es, 1, Len(es) - 1)), es[Len(es)])

IsIndexEntry(e) == IsArrayIndex(e.keyword)
IsNameEntry(e) == ~IsArrayIndex(e.keyword)

\* Object.entries: integer-index keys ascending, then the others in creation
\* order.
ObjectEntries(acc) ==
    SortByIndex(FilterSeq(IsIndexEntry, acc)) \o FilterSeq(IsNameEntry, acc)

\* (a, b) => b[1] - a[1]; a NaN result counts as +0 (SortCompare).
CompareEntries(a, b) ==
    IF a.count.t = "number" /\ b.count.t = "number"
    THEN b.count.v - a.count.v
    ELSE 0

\* Whether the comparator is a consistent comparison function for the array.
ConsistentCompare(es) ==
    \A i, j, k \in 1..Len(es) :
        /\ (CompareEntries(es[i], es[j]) = 0 /\ CompareEntries(es[j], es[k]) = 0)
               => CompareEntries(es[i], es[k]) = 0
        /\ (CompareEntries(es[i], es[j]) < 0 /\ CompareEntries(es[j], es[k]) = 0)
               => CompareEntries(es[i], es[k]) < 0
        /\ (CompareEntries(es[i], es[j]) = 0 /\ CompareEntries(es[j], es[k]) < 0)
               => CompareEntries(es[i], es[k]) < 0

RECURSIVE InsertStable(_, _)
InsertStable(sorted, e) ==
    IF sorted = <<>> THEN <<e>>
    ELSE IF CompareEntries(Head(sorted), e) <= 0
         THEN <<Head(sorted)>> \o InsertStable(Tail(sorted), e)
         ELSE <<e>> \o sorted

RECURSIVE StableSort(_)
StableSort(es) ==
    IF es = <<>> THEN <<>>
    ELSE InsertStable(StableSort(SubSeq(es, 1, Len(es) - 1)), es[Len(es)])

\* Array.prototype.sort: stable under a consistent comparator, otherwise the
\* order is implementation-defined: any arrangement of the elements.
SortOutcomes(es) ==
    IF ConsistentCompare(es) THEN {StableSort(es)}
    ELSE { [i \in 1..Len(es) |-> es[p[i]]] : p \in Permutations(1..Len(es)) }

\* slice(0, 10)
SliceTop(es) == SubSeq(es, 1, IF Len(es) < TopN THEN Len(es) ELSE TopN)

\* The results extractTopKeywords(texts) can return.
extractTopKeywords(texts) ==
    { SliceTop(sorted) : sorted \in SortOutcomes(ObjectEntries(WordCounts(Words(texts)))) }

(***************************************************************************)
(* Bounds of the model and the values the external services may produce    *)
(***************************************************************************)
MaxPosts == 2

RECURSIVE SeqsUpTo(_, _)
SeqsUpTo(S, n) ==
    IF n = 0 THEN {<<>>}
    ELSE LET shorter == SeqsUpTo(S, n - 1)
         IN  shorter \cup { Append(q, c) : q \in shorter, c \in S }

\* What the user can type into the input
Queries == { <<>>, <<" ", "\t">>, <<" ", "a", "\n">> }

\* Posts the Fetcher can return: {id, text, created_at}
PostUniverse ==
    { [id |-> 1, created_at |-> 1,
       text |-> <<"T","h","e"," ","c","a","t"," ","s","a","t">>],
      [id |-> 2, created_at |-> 3,
       text |-> <<"c","a","t"," "," ","r","u","n","s">>] }

PostLists == SeqsUpTo(PostUniverse, MaxPosts)

\* Scorer results: score and confidence in tenths; the confidence may be
\* absent (hasConfidence false, the confidence field then unused).
SentimentResults ==
    { [score |-> 4,  hasConfidence |-> TRUE,  confidence |-> 0],
      [score |-> -3, hasConfidence |-> TRUE,  confidence |-> 9],
      [score |-> 3,  hasConfidence |-> FALSE, confidence |-> 0] }

\* Values a service call can reject with: an Error instance or any other
\* value, with or without a message text ("" is no message).
Rejections ==
    { [isError |-> TRUE,  message |-> "Request failed"],
      [isError |-> TRUE,  message |-> ""],
      [isError |-> FALSE, message |-> "quota exceeded"],
      [isError |-> FALSE, message |-> ""] }

\* Values of new Date() when the aggregate is computed
NowValues == {2}

(***************************************************************************)
(* Aggregation (handleAnalyze, after the join) and the rendered labels     *)
(***************************************************************************)
Threshold == 3

DefaultConfidence == 10

RECURSIVE SumScores(_)
SumScores(sentiments) ==
    IF sentiments = <<>> THEN 0
    ELSE Head(sentiments).score + SumScores(Tail(sentiments))

\* sentiments.reduce((acc, curr) => acc + curr.score, 0) / sentiments.length
OverallScore(sentiments) ==
    [num |-> SumScores(sentiments), den |-> Len(sentiments)]

IsNaN(x) == x.den = 0
\* x > t and x < t for a fraction x of tenths; false when x is NaN
Greater(x, t) == x.den > 0 /\ x.num > t * x.den
Less(x, t) == x.den > 0 /\ x.num < t * x.den

\* formatDistance(date, now, {addSuffix: true})
FormatDistance(date, now) ==
    IF date > now THEN [distance |-> date - now, suffix |-> "in"]
    ELSE [distance |-> now - date, suffix |-> "ago"]

SentimentOverTime(fetched, sentiments, now) ==
    [i \in 1..Len(sentiments) |->
        [x |-> FormatDistance(fetched[i].created_at, now),
         y |-> sentiments[i].score]]

\* CountScore with the bounds included: >= 0.3 and <= -0.3
CountScoreInclusive(acc, curr) ==
    IF curr.score >= Threshold THEN [acc EXCEPT !.positive = @ + 1]
    ELSE IF curr.score <= -Threshold THEN [acc EXCEPT !.negative = @ + 1]
    ELSE [acc EXCEPT !.neutral = @ + 1]

CountScore(acc, curr) ==
    IF curr.score > Threshold THEN [acc EXCEPT !.positive = @ + 1]
    ELSE IF curr.score < -Threshold THEN [acc EXCEPT !.negative = @ + 1]
    ELSE [acc EXCEPT !.neutral = @ + 1]

RECURSIVE ReduceDistribution(_, _)
ReduceDistribution(acc, sentiments) ==
    IF sentiments = <<>> THEN acc
    ELSE ReduceDistribution(CountScore(acc, Head(sentiments)), Tail(sentiments))

Distribution(sentiments) ==
    ReduceDistribution([positive |-> 0, neutral |-> 0, negative |-> 0], sentiments)

\* s.confidence || 1: undefined and 0 are falsy
ConfidenceOrDefault(s) ==
    IF s.hasConfidence /\ s.confidence /= 0 THEN s.confidence
    ELSE DefaultConfidence

ConfidenceScores(sentiments) ==
    [i \in 1..Len(sentiments) |-> ConfidenceOrDefault(sentiments[i])]

\* fetchedPosts.map(p => p.text)
PostTexts(fetched) == [i \in 1..Len(fetched) |-> fetched[i].text]

\* extractTopKeywords(fetchedPosts.map(p => p.text)), tabulated once for the
\* post lists of the model
TopKeywordsOf == [fetched \in PostLists |-> extractTopKeywords(PostTexts(fetched))]

\* The objects setSentimentData can be given (one per outcome of the sort)
Aggregate(fetched, sentiments, now) ==
    { [overallScore |-> OverallScore(sentiments),
       sentimentOverTime |-> SentimentOverTime(fetched, sentiments, now),
       sentimentDistribution |-> Distribution(sentiments),
       confidenceScores |-> ConfidenceScores(sentiments),
       topKeywords |-> kw] : kw \in TopKeywordsOf[fetched] }

InitialSentimentData ==
    [overallScore |-> [num |-> 0, den |-> 1],
     sentimentOverTime |-> <<>>,
     sentimentDistribution |-> [positive |-> 0, neutral |-> 0, negative |-> 0],
     confidenceScores |-> <<>>,
     topKeywords |-> <<>>]

\* The label under the overall score
OverallLabel(score) ==
    IF Greater(score, Threshold) THEN "Positive"
    ELSE IF Less(score, -Threshold) THEN "Negative"
    ELSE "Neutral"

(***************************************************************************)
(* Component state                                                         *)
(***************************************************************************)
VARIABLES
    query,          \* useState('')
    posts,          \* useState([])
    loading,        \* useState(false)
    analyzing,      \* useState(false)
    sentimentData,  \* useState({...})
    toasts,         \* notifications since the last click on the button
    phase,          \* where the latest call of handleAnalyze is or ended: Idle
                    \*   (none yet, or returned at the validation), Fetching,
                    \*   Scoring, Done, Failed
    fetchedPosts,   \* the handler's local fetchedPosts
    calls,          \* the Promise.all slots of the handler's join
    orphans,        \* Scorer calls of the failed request that are still outstanding
    issued,         \* history: Scorer calls issued by the latest request
    failure,        \* history: the call of the latest request that rejected
    postsOf,        \* history: which request set posts (init, earlier, latest)
    dataOf,         \* history: which request set sentimentData
    kwTexts,        \* extractTopKeywords on its own: the argument
    kwResult,       \*   the value returned
    kwDone,         \*   whether it has returned
    aggInput,       \* the aggregation on its own: posts, sentiments and now
    aggOutput,      \*   the object given to setSentimentData
    aggDone         \*   whether it has been computed

componentVars == <<query, posts, loading, analyzing, sentimentData, toasts, phase,
                   fetchedPosts, calls, orphans, issued, failure, postsOf, dataOf>>

functionVars == <<kwTexts, kwResult, kwDone, aggInput, aggOutput, aggDone>>

vars == <<componentVars, functionVars>>

ValidationToast == [kind |-> "error", message |-> "Please enter a search query"]
SuccessToast == [kind |-> "success", message |-> "Analysis complete!"]
GenericMessage == "An error occurred"

\* toast.error(error instanceof Error ? error.message : 'An error occurred')
ErrorToast(error) ==
    [kind |-> "error",
     message |-> IF error.isError THEN error.message ELSE GenericMessage]

\* disabled={loading || analyzing}
SubmitDisabled == loading \/ analyzing

\* posts.length > 0 && !loading && !analyzing
ResultsVisible == Len(posts) > 0 /\ ~loading /\ ~analyzing

PendingCall ==
    [status |-> "pending",
     value |-> [score |-> 0, hasConfidence |-> FALSE, confidence |-> 0]]
FulfilledCall(result) == [status |-> "fulfilled", value |-> result]

PendingCalls == { i \in 1..Len(calls) : calls[i].status = "pending" }
Sentiments == [i \in 1..Len(calls) |-> calls[i].value]

NoFailure == [source |-> "none", error |-> [isError |-> FALSE, message |-> ""]]
Failure(source, error) == [source |-> source, error |-> error]

\* A value set by the latest request becomes one of an earlier request when
\* the next request is accepted.
Aged(owner) == IF owner = "init" THEN "init" ELSE "earlier"

InitComponent ==
    /\ query = <<>>
    /\ posts = <<>>
    /\ loading = FALSE
    /\ analyzing = FALSE
    /\ sentimentData = InitialSentimentData
    /\ toasts = <<>>
    /\ phase = "Idle"
    /\ fetchedPosts = <<>>
    /\ calls = <<>>
    /\ orphans = 0
    /\ issued = 0
    /\ failure = NoFailure
    /\ postsOf = "init"
    /\ dataOf = "init"

NoAggInput == [posts |-> <<>>, sentiments |-> <<>>, now |-> 0]

InitFunctions ==
    /\ kwTexts = <<>>
    /\ kwResult = <<>>
    /\ kwDone = FALSE
    /\ aggInput = NoAggInput
    /\ aggOutput = InitialSentimentData
    /\ aggDone = FALSE

Init == InitComponent /\ InitFunctions

\* onChange={(e) => setQuery(e.target.value)}; the input is disabled while busy
SetQuery(q) ==
    /\ ~SubmitDisabled
    /\ query' = q
    /\ UNCHANGED <<posts, loading, analyzing, sentimentData, toasts, phase,
                   fetchedPosts, calls, orphans, issued, failure, postsOf, dataOf,
                   functionVars>>

\* !query, the test without trim()
QueryIsEmpty(q) == q = <<>>

\* !query.trim()
QueryIsBlank(q) == Trim(q) = <<>>

\* Click with an empty or white-space query: toast.error(...); return
SubmitRejected ==
    /\ ~SubmitDisabled
    /\ QueryIsBlank(query)
    /\ toasts' = <<ValidationToast>>
    /\ phase' = "Idle"
    /\ UNCHANGED <<query, posts, loading, analyzing, sentimentData,
                   fetchedPosts, calls, orphans, issued, failure, postsOf, dataOf,
                   functionVars>>

\* Click: setLoading(true), fetchTweets(query) issued.  Scorer calls left
\* over from the request before are followed no further: nothing reads
\* their outcome.
SubmitAccepted ==
    /\ ~SubmitDisabled
    /\ ~QueryIsBlank(query)
    /\ loading' = TRUE
    /\ phase' = "Fetching"
    /\ toasts' = <<>>
    /\ fetchedPosts' = <<>>
    /\ calls' = <<>>
    /\ orphans' = 0
    /\ issued' = 0
    /\ failure' = NoFailure
    /\ postsOf' = Aged(postsOf)
    /\ dataOf' = Aged(dataOf)
    /\ UNCHANGED <<query, posts, analyzing, sentimentData, functionVars>>

\* fetchTweets resolves: setPosts, setAnalyzing(true), one Scorer call per post
FetchFulfilled(fetched) ==
    /\ phase = "Fetching"
    /\ posts' = fetched
    /\ postsOf' = "latest"
    /\ analyzing' = TRUE
    /\ fetchedPosts' = fetched
    /\ calls' = [i \in 1..Len(fetched) |-> PendingCall]
    /\ issued' = Len(fetched)
    /\ phase' = "Scoring"
    /\ UNCHANGED <<query, loading, sentimentData, toasts, orphans, failure, dataOf,
                   functionVars>>

\* Fail without setLoading(false) in finally
FailKeepsLoading(error) ==
    /\ toasts' = Append(toasts, ErrorToast(error))
    /\ loading' = loading
    /\ analyzing' = FALSE
    /\ phase' = "Failed"
    /\ fetchedPosts' = <<>>
    /\ calls' = <<>>

\* catch and finally; the handler's locals are gone
Fail(error) ==
    /\ toasts' = Append(toasts, ErrorToast(error))
    /\ loading' = FALSE
    /\ analyzing' = FALSE
    /\ phase' = "Failed"
    /\ fetchedPosts' = <<>>
    /\ calls' = <<>>

\* fetchTweets rejects
FetchRejected(error) ==
    /\ phase = "Fetching"
    /\ Fail(error)
    /\ failure' = Failure("fetch", error)
    /\ UNCHANGED <<query, posts, sentimentData, orphans, issued, postsOf, dataOf,
                   functionVars>>

\* One Scorer call resolves; Promise.all keeps the value at the call's index
ScorerFulfilled(i, result) ==
    /\ phase = "Scoring"
    /\ i \in PendingCalls
    /\ calls' = [calls EXCEPT ![i] = FulfilledCall(result)]
    /\ UNCHANGED <<query, posts, loading, analyzing, sentimentData, toasts, phase,
                   fetchedPosts, orphans, issued, failure, postsOf, dataOf,
                   functionVars>>

\* ScorerRejected with a join that waits for all and skips the rejected call
\* (Promise.allSettled, the rejected slot filled with a neutral result)
ScorerRejectedSkipped(i, error) ==
    /\ phase = "Scoring"
    /\ i \in PendingCalls
    /\ calls' = [calls EXCEPT ![i] = FulfilledCall(PendingCall.value)]
    /\ failure' = Failure("score", error)
    /\ UNCHANGED <<query, posts, loading, analyzing, sentimentData, toasts, phase,
                   fetchedPosts, orphans, issued, postsOf, dataOf, functionVars>>

\* One Scorer call rejects: Promise.all rejects at once and the handler goes
\* to catch; the calls still pending stay outstanding, their outcome unread
ScorerRejected(i, error) ==
    /\ phase = "Scoring"
    /\ i \in PendingCalls
    /\ Fail(error)
    /\ failure' = Failure("score", error)
    /\ orphans' = Cardinality(PendingCalls) - 1
    /\ UNCHANGED <<query, posts, sentimentData, issued, postsOf, dataOf,
                   functionVars>>

\* Every Scorer call has resolved: Promise.all resolves (at once for no
\* posts), the aggregate is computed and stored, finally clears the flags
AllFulfilled(now) ==
    /\ phase = "Scoring"
    /\ PendingCalls = {}
    /\ sentimentData' \in Aggregate(fetchedPosts, Sentiments, now)
    /\ dataOf' = "latest"
    /\ toasts' = Append(toasts, SuccessToast)
    /\ loading' = FALSE
    /\ analyzing' = FALSE
    /\ phase' = "Done"
    /\ UNCHANGED <<query, posts, fetchedPosts, calls, orphans, issued, failure,
                   postsOf, functionVars>>

\* A Scorer call left over from the failed request resolves or rejects
OrphanSettled ==
    /\ orphans > 0
    /\ orphans' = orphans - 1
    /\ UNCHANGED <<query, posts, loading, analyzing, sentimentData, toasts, phase,
                   fetchedPosts, calls, issued, failure, postsOf, dataOf,
                   functionVars>>

\* The Fetcher call settles
FetchSettles ==
    \/ \E fetched \in PostLists : FetchFulfilled(fetched)
    \/ \E error \in Rejections : FetchRejected(error)

\* A Scorer call of the running join settles
ScorerSettles ==
    \/ \E i \in 1..MaxPosts, result \in SentimentResults : ScorerFulfilled(i, result)
    \/ \E i \in 1..MaxPosts, error \in Rejections : ScorerRejected(i, error)

\* The continuation of the resolved join runs
JoinContinues == \E now \in NowValues : AllFulfilled(now)

Next ==
    \/ \E q \in Queries : SetQuery(q)
    \/ SubmitRejected
    \/ SubmitAccepted
    \/ FetchSettles
    \/ ScorerSettles
    \/ JoinContinues
    \/ OrphanSettled

Spec == Init /\ [][Next]_vars

\* The Fetcher call and every Scorer call issued complete in the end, and a
\* settled promise's continuation runs.
FairSpec ==
    Spec /\ WF_vars(FetchSettles) /\ WF_vars(ScorerSettles) /\ WF_vars(JoinContinues)

(***************************************************************************)
(* Properties of the request workflow                                      *)
(***************************************************************************)
Terminal == phase \in {"Done", "Failed"}
InFlight == phase \in {"Fetching", "Scoring"}

RECURSIVE SumY(_)
SumY(series) ==
    IF series = <<>> THEN 0 ELSE Head(series).y + SumY(Tail(series))

\* The confidence a Scorer result carries, 1.0 when it carries none
ReturnedConfidence(result) ==
    IF result.hasConfidence THEN result.confidence ELSE 10

AllOrNothingState ==
    /\ Terminal /\ failure.source /= "fetch" =>
           (phase = "Done" <=> failure.source = "none")
    /\ phase = "Done" =>
           /\ Len(calls) = issued
           /\ \A i \in 1..Len(calls) : calls[i].status = "fulfilled"
           /\ dataOf = "latest"
           /\ toasts = <<SuccessToast>>
    /\ phase = "Failed" =>
           /\ dataOf /= "latest"
           /\ \A i \in 1..Len(toasts) : toasts[i].kind = "error"

AllOrNothingStep ==
    /\ phase' = "Failed" => sentimentData' = sentimentData
    /\ (phase = "Scoring" /\ phase' = "Done") =>
           /\ Len(sentimentData'.sentimentOverTime) = issued
           /\ \A i \in 1..issued :
                  sentimentData'.sentimentOverTime[i].y = calls[i].value.score

\* C1: the join is all-or-nothing.  A request whose fetch succeeded ends
\* Done exactly when no Scorer call rejected; Done has every call fulfilled,
\* the aggregate replaced from this request's results and the success
\* notification; a step that ends in Failed, or is taken in Failed while
\* left-over calls settle, leaves sentimentData as it was.
C1AllOrNothing == []AllOrNothingState /\ [][AllOrNothingStep]_vars

\* A request of two posts failed on a Scorer call, the other call has
\* settled too, and the aggregate of an earlier request is still held.
C1Witness ==
    /\ phase = "Failed"
    /\ failure.source = "score"
    /\ issued = 2
    /\ orphans = 0
    /\ dataOf = "earlier"

\* C2 (as claimed): once the latest request is Done or Failed, neither posts
\* nor sentimentData is a value an earlier request produced.
C2NoEarlierResults ==
    Terminal => (postsOf /= "earlier" /\ dataOf /= "earlier")

BlankQuery == \A i \in 1..Len(query) : query[i] \in {" ", "\t", "\n"}

RejectedStep ==
    (BlankQuery /\ ~loading /\ ~analyzing) =>
        /\ UNCHANGED <<loading, analyzing, posts, sentimentData, issued, calls,
                       fetchedPosts>>
        /\ phase' \in {phase, "Idle"}
        /\ (query' = query /\ orphans' = orphans) =>
               (phase' = "Idle" /\ toasts' = <<ValidationToast>>)

\* C3: with an empty or white-space-only query and the button enabled, no
\* step starts a request: phase, flags, posts and aggregate stay, no Fetcher
\* or Scorer call is issued, and the click leaves the validation error as
\* the notification.
C3BlankRejected == [][RejectedStep]_vars

\* A white-space-only query was submitted while results were held.
C3Witness ==
    /\ query /= <<>>
    /\ BlankQuery
    /\ toasts = <<ValidationToast>>
    /\ phase = "Idle"
    /\ dataOf = "latest"
    /\ Len(posts) > 0

\* The message an error carries, the generic one when it carries none
CarriedMessage(error) ==
    IF error.message /= "" THEN error.message ELSE "An error occurred"

\* C4 (as claimed): a request ends Failed exactly when its Fetcher call or a
\* Scorer call rejected; then the only notification is one error carrying
\* the error's message, the generic message when it carries none; a failed
\* fetch issues no Scorer call.
C4NothingSwallowed ==
    /\ Terminal => (phase = "Failed" <=> failure.source /= "none")
    /\ phase = "Failed" =>
           toasts = << [kind |-> "error", message |-> CarriedMessage(failure.error)] >>
    /\ failure.source = "fetch" => issued = 0

\* C5 (as claimed): on Done both series have one entry per post, and entry
\* i is the score, and the confidence, that the call for posts[i] returned.
C5IndexAligned ==
    phase = "Done" =>
        /\ Len(sentimentData.sentimentOverTime) = Len(posts)
        /\ Len(sentimentData.confidenceScores) = Len(posts)
        /\ \A i \in 1..Len(posts) :
               /\ sentimentData.sentimentOverTime[i].y = calls[i].value.score
               /\ sentimentData.confidenceScores[i] = ReturnedConfidence(calls[i].value)

\* The part of C5 that holds: lengths and scores follow the input order.
ScoresIndexAligned ==
    phase = "Done" =>
        /\ Len(sentimentData.sentimentOverTime) = Len(posts)
        /\ Len(sentimentData.confidenceScores) = Len(posts)
        /\ \A i \in 1..Len(posts) :
               sentimentData.sentimentOverTime[i].y = calls[i].value.score

TerminalState ==
    /\ Terminal => (~loading /\ ~analyzing /\ ENABLED (SubmitAccepted \/ SubmitRejected))
    /\ InFlight => loading

BusyStep ==
    (loading \/ analyzing) =>
        /\ phase' /= "Fetching"
        /\ toasts' /= toasts => phase' \in {"Done", "Failed"}

\* C9: when the Fetcher call and the Scorer calls complete, every accepted
\* submit reaches Done or Failed; there both flags are false and a click is
\* possible again; while a flag is true no step starts a request or rejects
\* a click.
C9Termination ==
    /\ []TerminalState
    /\ [][BusyStep]_vars
    /\ (InFlight ~> Terminal)

\* A request of two posts has reached Done and the button is enabled.
C9Witness ==
    /\ phase = "Done"
    /\ issued = 2
    /\ ~loading
    /\ ~analyzing

\* C10 (as claimed): whenever the results panel is visible the aggregate was
\* computed from the posts held: both series have one entry per post and
\* overallScore is the mean of those scores, not NaN.
C10ViewConsistent ==
    (Len(posts) > 0 /\ ~loading /\ ~analyzing) =>
        /\ dataOf = postsOf
        /\ Len(sentimentData.sentimentOverTime) = Len(posts)
        /\ Len(sentimentData.confidenceScores) = Len(posts)
        /\ ~IsNaN(sentimentData.overallScore)
        /\ sentimentData.overallScore.num * Len(posts)
               = SumY(sentimentData.sentimentOverTime) * sentimentData.overallScore.den

(***************************************************************************)
(* extractTopKeywords on its own                                           *)
(***************************************************************************)
MaxFragments == 2
MaxTexts == 2
MaxShuffled == 4

\* Pieces a post text is made of
Fragments ==
    { <<"T","h","e"," ">>,
      <<" ","c","a","t">>,
      <<"C","A","T","\t","\n">>,
      <<"s","a","t">>,
      <<"a","n"," ">>,
      <<"1","2","3"," ">>,
      Constructor \o <<" ">>,
      <<" ">> \o DunderProto }

RECURSIVE Concat(_)
Concat(pieces) ==
    IF pieces = <<>> THEN <<>> ELSE Head(pieces) \o Concat(Tail(pieces))

Triple(c) == <<c, c, c, " ">>

\* A text of ten distinct words, each once
LongText ==
    Concat(<<Triple("b"), Triple("d"), Triple("e"), Triple("f"), Triple("g"),
             Triple("h"), Triple("i"), Triple("j"), Triple("k"), Triple("l")>>)

\* Texts of up to n pieces, and the long one
KeywordTexts(n) ==
    { Concat(pieces) : pieces \in SeqsUpTo(Fragments, n) } \cup {LongText}

\* The arguments tried: up to m texts of up to n pieces.  Where the
\* comparator is inconsistent every arrangement is an outcome, so those
\* arguments are kept to MaxShuffled distinct words.
KeywordInputs(m, n) ==
    { texts \in SeqsUpTo(KeywordTexts(n), m) :
        LET entries == ObjectEntries(WordCounts(Words(texts)))
        IN  ConsistentCompare(entries) \/ Len(entries) <= MaxShuffled }

InitKeywords ==
    /\ InitComponent
    /\ kwTexts \in KeywordInputs(MaxTexts, MaxFragments)
    /\ kwResult = <<>>
    /\ kwDone = FALSE
    /\ aggInput = NoAggInput
    /\ aggOutput = InitialSentimentData
    /\ aggDone = FALSE

ExtractKeywords ==
    /\ ~kwDone
    /\ kwResult' \in extractTopKeywords(kwTexts)
    /\ kwDone' = TRUE
    /\ UNCHANGED <<componentVars, kwTexts, aggInput, aggOutput, aggDone>>

NextKeywords == ExtractKeywords

SpecKeywords == InitKeywords /\ [][NextKeywords]_vars

\* The tokens pooled across the texts
Pool == Words(kwTexts)
DistinctTokens == { Pool[i] : i \in 1..Len(Pool) }
Occurrences(word) == Cardinality({ i \in 1..Len(Pool) : Pool[i] = word })

\* result is the first 10 of a ranking of the distinct tokens by count,
\* highest first, every count the number of occurrences of its token
Ranked(result) ==
    /\ Len(result) = IF Cardinality(DistinctTokens) < 10
                     THEN Cardinality(DistinctTokens) ELSE 10
    /\ \A i \in 1..Len(result) :
           /\ result[i].keyword \in DistinctTokens
           /\ result[i].count.t = "number"
           /\ result[i].count.v >= 1
           /\ result[i].count.v = Occurrences(result[i].keyword)
    /\ \A i, j \in 1..Len(result) :
           i < j => /\ result[i].keyword /= result[j].keyword
                    /\ result[i].count.v >= result[j].count.v
    /\ \A word \in DistinctTokens :
           (\A i \in 1..Len(result) : result[i].keyword /= word) =>
               \A i \in 1..Len(result) : Occurrences(word) <= result[i].count.v
    /\ DistinctTokens = {} => result = <<>>

\* C7 (as claimed): for every sequence of texts the result is the first 10
\* entries of the count-descending ranking of the distinct pooled tokens,
\* each count an integer >= 1 equal to the occurrences of its token; so at
\* most 10 entries, counts non-increasing, empty when no token is kept.
C7TopKeywords == kwDone => Ranked(kwResult)

\* What holds of extractTopKeywords: the same, for texts none of whose
\* tokens is constructor or __proto__.
RankedWithoutInheritedKeys ==
    (kwDone /\ DistinctTokens \cap InheritedKeys = {}) => Ranked(kwResult)

\* More than ten distinct tokens were pooled from two texts and cut to ten.
TruncationCase ==
    /\ kwDone
    /\ Len(kwTexts) = 2
    /\ Cardinality(DistinctTokens) > 10
    /\ Len(kwResult) = 10
    /\ kwResult[1].count.v = 2

(***************************************************************************)
(* The aggregation on its own                                              *)
(***************************************************************************)
MaxSentiments == 2

AggScores == {-10, -4, -3, 0, 3, 4}
AggConfidences == {0, 5, 10}
AggResults ==
    { [score |-> s, hasConfidence |-> TRUE, confidence |-> c] :
          s \in AggScores, c \in AggConfidences }
    \cup { [score |-> s, hasConfidence |-> FALSE, confidence |-> 0] : s \in AggScores }

\* Posts with as many sentiments, up to n of them
AggInputs(n) ==
    { in \in [posts : PostLists, sentiments : SeqsUpTo(AggResults, n),
              now : NowValues] : Len(in.posts) = Len(in.sentiments) }

InitAggregate ==
    /\ InitComponent
    /\ kwTexts = <<>>
    /\ kwResult = <<>>
    /\ kwDone = FALSE
    /\ aggInput \in AggInputs(MaxSentiments)
    /\ aggOutput = InitialSentimentData
    /\ aggDone = FALSE

ApplyAggregate ==
    /\ ~aggDone
    /\ aggOutput' \in Aggregate(aggInput.posts, aggInput.sentiments, aggInput.now)
    /\ aggDone' = TRUE
    /\ UNCHANGED <<componentVars, kwTexts, kwResult, kwDone, aggInput>>

NextAggregate == ApplyAggregate

SpecAggregate == InitAggregate /\ [][NextAggregate]_vars

\* C6: the distribution counts every sentiment once: positive are the
\* scores above 0.3, negative those below -0.3, neutral the rest, 0.3 and
\* -0.3 among them, and the three add up to the number of sentiments; the
\* label shown for overallScore uses the same two thresholds.
C6Partition ==
    aggDone =>
        LET ss == aggInput.sentiments
            d == aggOutput.sentimentDistribution
            o == aggOutput.overallScore
        IN  /\ d.positive = Cardinality({ i \in 1..Len(ss) : ss[i].score > 3 })
            /\ d.negative = Cardinality({ i \in 1..Len(ss) : ss[i].score < -3 })
            /\ d.neutral = Cardinality({ i \in 1..Len(ss) :
                                           ss[i].score >= -3 /\ ss[i].score <= 3 })
            /\ d.positive + d.neutral + d.negative = Len(ss)
            /\ OverallLabel(o) = "Positive" <=> (o.den > 0 /\ o.num > 3 * o.den)
            /\ OverallLabel(o) = "Negative" <=> (o.den > 0 /\ o.num < (-3) * o.den)
            /\ OverallLabel(o) \in {"Positive", "Negative", "Neutral"}

\* Two sentiments, one exactly 0.3 and one above, were counted, and their
\* mean is labelled.
C6Witness ==
    /\ aggDone
    /\ Len(aggInput.sentiments) = 2
    /\ aggInput.sentiments[1].score = 3
    /\ aggInput.sentiments[2].score = 4
    /\ aggOutput.sentimentDistribution = [positive |-> 1, neutral |-> 1, negative |-> 0]
    /\ OverallLabel(aggOutput.overallScore) = "Positive"

\* C8 (as claimed): confidenceScores[i] is the confidence of sentiments[i]
\* whenever the result carries one, 0 included, and 1.0 only when it
\* carries none.
C8ConfidenceKept ==
    aggDone =>
        \A i \in 1..Len(aggInput.sentiments) :
            aggOutput.confidenceScores[i] =
                IF aggInput.sentiments[i].hasConfidence
                THEN aggInput.sentiments[i].confidence
                ELSE 10

\* What holds of confidenceScores: the confidence when it is present and
\* not 0, otherwise 1.0.
ConfidenceKeptUnlessZero ==
    aggDone =>
        \A i \in 1..Len(aggInput.sentiments) :
            aggOutput.confidenceScores[i] =
                IF /\ aggInput.sentiments[i].hasConfidence
                   /\ aggInput.sentiments[i].confidence /= 0
                THEN aggInput.sentiments[i].confidence
                ELSE 10

=============================================================================
